---- MODULE Spec2Model ----
(***************************************************************************)
(* A model of tmp-benchmark/main.rs: the regex pool-contention benchmark.  *)
(* The main thread reads REGEX_BENCH_THREADS, compiles the regex, reads    *)
(* REGEX_BENCH_WHICH and runs Benchmark::cloned or Benchmark::shared, each *)
(* of which spawns `threads` workers that call is_match ITERS times, joins *)
(* them, sums their counters and returns the elapsed time.                 *)
(***************************************************************************)
EXTENDS Integers, Sequences, FiniteSets, TLC

(* ------------------------------ bounds -------------------------------- *)

\* Largest thread count REGEX_BENCH_THREADS is given in the model.
MaxThreads == 3

\* The number of loop iterations of one worker (ITERS scaled down).
Iters == 2

\* The largest number of match operations, over all workers of a run, of
\* the runs explored under fairness.
MaxWork == 9

(* ----------------------------- constants ------------------------------ *)

\* const PATTERN: &str = "";
PATTERN == << >>

\* const HAYSTACK: &str = "ZQZQZQZQ";
HAYSTACK == <<"Z", "Q", "Z", "Q", "Z", "Q", "Z", "Q">>

\* u32::MAX in decimal, the largest value `let threads: u32 = ...parse()?`
\* accepts.
U32MaxDigits == <<"4", "2", "9", "4", "9", "6", "7", "2", "9", "5">>

\* const ITERS: usize = 100_000;
ITERS == 100000

\* i32::MAX: the counters `let mut matched = 0` are i32 by default.
I32Max == 2147483647

\* "No value": an Instant not taken yet, a u32 not parsed yet.
None == 0 - 1

\* The pool's owner field before any thread has accessed the pool.
THREAD_ID_UNOWNED == 0

\* What a worker holds when the pool gave it the owner's special value.
OwnerVal == 0 - 2

Workers == 1 .. MaxThreads

\* Pool 0 belongs to Benchmark.re; a clone's pool is numbered as it is made.
PoolIds == 0 .. MaxThreads

VARIABLES
    envThreads,   \* REGEX_BENCH_THREADS: [set |-> BOOLEAN, val |-> string]
    envWhich,     \* REGEX_BENCH_WHICH:   [set |-> BOOLEAN, val |-> string]
    pc,           \* the main thread's position
    clock,        \* the monotonic clock, one tick per main-thread step
    threads,      \* main's `threads` (None before it is parsed)
    compiles,     \* how many times RegexBuilder::build has run
    compiledAt,   \* the clock when build returned Ok
    benchmark,    \* whether `Benchmark { re, threads }` has been constructed
    which,        \* main's `which` ("" before it is read)
    strategy,     \* the method of Benchmark being executed ("" for none)
    start,        \* `start` of cloned/shared
    stop,         \* the Instant::now() of `duration_since(start)`
    handles,      \* `handles`: the workers spawned, in spawn order
    njoined,      \* how many handles the join loop has consumed
    matched,      \* the join loop's `matched`
    spawnedAt,    \* the clock at each worker's spawn
    joinedAt,     \* the clock at each worker's join
    stdout,       \* the lines written to standard output
    err,          \* the error or panic that ended the run
    wpc,          \* each worker's position
    iter,         \* each worker's completed loop iterations
    wmatched,     \* each worker's `matched`
    poolOf,       \* the pool of the Regex each worker was given
    held,         \* the scratch value each worker holds
    locks,        \* how many times each worker has locked a pool mutex
    npools,       \* the number of Regex clones made
    owner,        \* each pool's owner thread
    stack,        \* each pool's stack of scratch values
    mutex,        \* each pool's mutex holder (0: unlocked)
    created,      \* how many scratch values each pool has created
    first         \* the result of an earlier strategy call on this Benchmark

envVars == <<envThreads, envWhich>>
cfgVars == <<threads, compiles, compiledAt, benchmark, which>>

timeVars == <<start, stop>>
joinVars == <<handles, njoined, matched, spawnedAt, joinedAt>>
outVars == <<stdout, err>>
workerVars == <<wpc, iter, wmatched, poolOf, held, locks>>
poolVars == <<npools, owner, stack, mutex, created>>
vars == <<envVars, pc, clock, cfgVars, strategy, timeVars, joinVars, outVars,
          workerVars, poolVars, first>>

(* ------------------------- pure functions ----------------------------- *)

Digits == <<"0", "1", "2", "3", "4", "5", "6", "7", "8", "9">>

IsDigit(c) == \E d \in 1 .. 10 : Digits[d] = c

DigitVal(c) == (CHOOSE d \in 1 .. 10 : Digits[d] = c) - 1

RECURSIVE DigitsValue(_)
DigitsValue(s) ==
    IF s = << >> THEN 0
    ELSE 10 * DigitsValue(SubSeq(s, 1, Len(s) - 1)) + DigitVal(s[Len(s)])

RECURSIVE StripZeros(_)
StripZeros(s) ==
    IF Len(s) > 1 /\ s[1] = "0" THEN StripZeros(Tail(s)) ELSE s

\* Whether the digit string a denotes a larger number than the digit string
\* b of the same length.
RECURSIVE DigitsGreater(_, _)
DigitsGreater(a, b) ==
    IF a = << >> THEN FALSE
    ELSE IF DigitVal(a[1]) # DigitVal(b[1]) THEN DigitVal(a[1]) > DigitVal(b[1])
    ELSE DigitsGreater(Tail(a), Tail(b))

\* Whether a string of digits denotes more than u32::MAX.
OverflowsU32(s) ==
    LET d == StripZeros(s)
    IN  \/ Len(d) > Len(U32MaxDigits)
        \/ Len(d) = Len(U32MaxDigits) /\ DigitsGreater(d, U32MaxDigits)

\* Mutant of ParseU32: `.parse().unwrap_or(1)`.
ParseU32OrOne(s) ==
    IF s # << >> /\ (\A i \in 1 .. Len(s) : IsDigit(s[i])) /\ ~OverflowsU32(s)
      THEN DigitsValue(s)
      ELSE 1

\* <u32 as FromStr>::from_str: an optional '+', then one or more decimal
\* digits, the value at most u32::MAX; anything else is a ParseIntError.
ParseU32(s) ==
    LET body == IF s # << >> /\ s[1] = "+" THEN Tail(s) ELSE s
    IN  IF body = << >> THEN None
        ELSE IF \E i \in 1 .. Len(body) : ~IsDigit(body[i]) THEN None
        ELSE IF OverflowsU32(body) THEN None
        ELSE DigitsValue(body)

\* Regex::is_match for a pattern of literal characters: the pattern occurs
\* somewhere in the haystack (the empty pattern occurs everywhere).
IsMatch(p, h) ==
    \E i \in 1 .. Len(h) + 1 :
        /\ i + Len(p) - 1 <= Len(h)
        /\ SubSeq(h, i, i + Len(p) - 1) = p

\* Whether RegexBuilder::new(p).unicode(false).dfa_size_limit(..).build()
\* returns Ok: a pattern of literal characters only (the empty one included)
\* always compiles; one with an operator in it is taken not to.
BuildOk(p) ==
    \A i \in 1 .. Len(p) : p[i] \notin {"(", ")", "[", "]", "*", "+", "?", "|"}

\* `matched += n` on an i32, for n >= 0 (wrapping, as in a release build).
AddI32(a, b) ==
    IF a > I32Max - b
      THEN (a - I32Max - 1) + (b - I32Max - 1)
      ELSE a + b

\* The decimal string of a small thread count.
DigitStr(n) == <<Digits[n + 1]>>

\* Strings that are not the decimal text of a u32: empty, negative, not a
\* number, trailing space, u32::MAX + 1.
MalformedCounts ==
    {<< >>, <<"-", "1">>, <<"a">>, <<"1", " ">>,
     <<"4", "2", "9", "4", "9", "6", "7", "2", "9", "6">>}

\* The values REGEX_BENCH_THREADS is given.
ThreadInputs ==
    {[set |-> FALSE, val |-> << >>]}
    \cup {[set |-> TRUE, val |-> DigitStr(n)] : n \in 0 .. MaxThreads}
    \cup {[set |-> TRUE, val |-> v] : v \in {<<"+", "1">>, <<"0", "2">>}}
    \cup {[set |-> TRUE, val |-> v] : v \in MalformedCounts}

\* The values REGEX_BENCH_WHICH is given.
WhichInputs ==
    {[set |-> FALSE, val |-> ""]}
    \cup {[set |-> TRUE, val |-> v] : v \in {"cloned", "shared", "bogus", ""}}

(* ------------------------------- Init --------------------------------- *)

\* A value per worker before any thread is spawned.
PerWorker(v) == [w \in Workers |-> v]

\* A value per pool as Pool::new leaves it.
PerPool(v) == [p \in PoolIds |-> v]

NoError == [kind |-> "none", msg |-> << >>]

NoResult == [strategy |-> "", matched |-> None]

Init ==
    /\ envThreads \in ThreadInputs
    /\ envWhich \in WhichInputs
    /\ pc = "read_threads"
    /\ clock = 0
    /\ threads = None
    /\ compiles = 0
    /\ compiledAt = None
    /\ benchmark = FALSE
    /\ which = ""
    /\ strategy = ""
    /\ start = None
    /\ stop = None
    /\ handles = << >>
    /\ njoined = 0
    /\ matched = 0
    /\ spawnedAt = PerWorker(None)
    /\ joinedAt = PerWorker(None)
    /\ stdout = << >>
    /\ err = NoError
    /\ wpc = PerWorker("idle")
    /\ iter = PerWorker(0)
    /\ wmatched = PerWorker(0)
    /\ poolOf = PerWorker(None)
    /\ held = PerWorker(0)
    /\ locks = PerWorker(0)
    /\ npools = 0
    /\ owner = PerPool(THREAD_ID_UNOWNED)
    /\ stack = PerPool(<< >>)
    /\ mutex = PerPool(0)
    /\ created = PerPool(0)
    /\ first = NoResult

(* --------------------------- the main thread -------------------------- *)

\* An `Err` returned from main (`?` or bail!): the message goes to standard
\* error and the process exits with a failure code.
Fail(kind, msg) ==
    /\ pc' = "exit_err"
    /\ err' = [kind |-> kind, msg |-> msg]

\* A panic on the main thread (unwrap of a failed join, a failed assert!).
Panic(kind) ==
    /\ pc' = "exit_panic"
    /\ err' = [kind |-> kind, msg |-> << >>]

\* let threads: u32 = std::env::var("REGEX_BENCH_THREADS")?.parse()?;
ReadThreads ==
    /\ pc = "read_threads"
    /\ clock' = clock + 1
    /\ IF ~envThreads.set
         THEN Fail("config", <<"environment variable not found">>)
              /\ UNCHANGED threads
         ELSE IF ParseU32(envThreads.val) = None
         THEN Fail("config", <<"invalid digit found in string">>)
              /\ UNCHANGED threads
         ELSE /\ threads' = ParseU32(envThreads.val)
              /\ pc' = "compile"
              /\ UNCHANGED err
    /\ UNCHANGED <<envVars, compiles, compiledAt, benchmark, which, timeVars,
                   joinVars, stdout, workerVars, poolVars, first, strategy>>

\* Mutant of Compile: the builder is kept and the matcher is not built
\* before the selector is read.
CompileDeferred ==
    /\ pc = "compile"
    /\ clock' = clock + 1
    /\ pc' = "construct"
    /\ UNCHANGED <<envVars, cfgVars, timeVars, joinVars, outVars, workerVars,
                   poolVars, first, strategy>>

\* let re = RegexBuilder::new(PATTERN)...build()?;
Compile ==
    /\ pc = "compile"
    /\ clock' = clock + 1
    /\ compiles' = compiles + 1
    /\ IF BuildOk(PATTERN)
         THEN /\ compiledAt' = clock + 1
              /\ pc' = "construct"
              /\ UNCHANGED err
         ELSE /\ Fail("compile", <<"regex parse error">>)
              /\ UNCHANGED compiledAt
    /\ UNCHANGED <<envVars, threads, benchmark, which, timeVars, joinVars,
                   stdout, workerVars, poolVars, first, strategy>>

\* let benchmark = Benchmark { re, threads };
Construct ==
    /\ pc = "construct"
    /\ clock' = clock + 1
    /\ benchmark' = TRUE
    /\ pc' = "read_which"
    /\ UNCHANGED <<envVars, threads, compiles, compiledAt, which, timeVars,
                   joinVars, outVars, workerVars, poolVars, first, strategy>>

\* let which = std::env::var("REGEX_BENCH_WHICH")?;
ReadWhich ==
    /\ pc = "read_which"
    /\ clock' = clock + 1
    /\ IF envWhich.set
         THEN /\ which' = envWhich.val
              /\ pc' = "dispatch"
              /\ UNCHANGED err
         ELSE /\ Fail("config", <<"environment variable not found">>)
              /\ UNCHANGED which
    /\ UNCHANGED <<envVars, threads, compiles, compiledAt, benchmark,
                   timeVars, joinVars, stdout, workerVars, poolVars, first, strategy>>

\* The message of bail!("unrecognized REGEX_BENCH_WHICH={}", unknown).
UnrecognizedMsg(unknown) == <<"unrecognized REGEX_BENCH_WHICH=", unknown>>

\* Mutant of MatchWhich: any other selector runs cloned.
MatchWhichDefault(w) == IF w = "shared" THEN "s_start" ELSE "c_start"

\* The arm `match &*which` selects: the entry of cloned, of shared, or "".
MatchWhich(w) ==
    IF w = "cloned" THEN "c_start"
    ELSE IF w = "shared" THEN "s_start"
    ELSE ""

\* let duration = match &*which { "cloned" => .., "shared" => .., unknown => bail! };
Dispatch ==
    /\ pc = "dispatch"
    /\ clock' = clock + 1
    /\ IF MatchWhich(which) # ""
         THEN pc' = MatchWhich(which) /\ UNCHANGED err
         ELSE Fail("unrecognized", UnrecognizedMsg(which))
    /\ UNCHANGED <<envVars, cfgVars, timeVars, joinVars, stdout, workerVars,
                   poolVars, first, strategy>>

(* ------------------- Benchmark::cloned and ::shared ------------------- *)

\* Mutant of StartAt: `start` is not taken before the spawn loop.
StartAtUntimed(here, name, next) ==
    /\ pc = here
    /\ clock' = clock + 1
    /\ strategy' = name
    /\ handles' = << >>
    /\ pc' = next
    /\ UNCHANGED <<envVars, cfgVars, timeVars, njoined, matched, spawnedAt,
                   joinedAt, outVars, workerVars, poolVars, first>>

\* let start = Instant::now(); let mut handles = vec![];
StartAt(here, name, next) ==
    /\ pc = here
    /\ clock' = clock + 1
    /\ strategy' = name
    /\ start' = clock + 1
    /\ handles' = << >>
    /\ pc' = next
    /\ UNCHANGED <<envVars, cfgVars, stop, njoined, matched, spawnedAt,
                   joinedAt, outVars, workerVars, poolVars, first>>

\* Mutant of LoopTop: `for _ in 1..ITERS`, one iteration short.
LoopTopShort(done) == IF done < Iters - 1 THEN "get" ELSE "done"

\* The position of a thread that std::thread::spawn has just started: at the
\* top of `for _ in 0..ITERS`.
LoopTop(done) == IF done < Iters THEN "get" ELSE "done"

\* handles.push(std::thread::spawn(move || { let mut matched = 0; ... }))
\* with the closure owning (a reference to) the Regex whose pool is p.
SpawnWorker(w, p) ==
    /\ handles' = Append(handles, w)
    /\ spawnedAt' = [spawnedAt EXCEPT ![w] = clock + 1]
    /\ wpc' = [wpc EXCEPT ![w] = LoopTop(0)]
    /\ wmatched' = [wmatched EXCEPT ![w] = 0]
    /\ poolOf' = [poolOf EXCEPT ![w] = p]

\* Mutant of ClonedPool: one clone made before the loop is handed to every
\* worker.
ClonedPoolReused(n) == 1

\* `let re = self.re.clone();` inside the loop of cloned: the pool of the
\* Regex handed to the next worker, when n clones exist already.
ClonedPool(n) == n + 1

\* Mutant of SharedPool: every worker is handed a matcher of its own instead
\* of a reference to the one shared clone.
SharedPoolPerWorker(n) == Len(handles) + 1

\* `let re = Arc::clone(&re);` in the loop of shared: the pool of the Regex
\* handed to the next worker, when n clones exist already.
SharedPool(n) == n

\* Mutant of JoinSum: `matched = h.join().unwrap()`.
JoinSumOverwrite(m, r) == r

\* `matched += h.join().unwrap()` for a worker that returned r.
JoinSum(m, r) == AddI32(m, r)

\* Mutant of JoinOk: the join result is not looked at
\* (`h.join().unwrap_or_default()`).
JoinOkIgnored(h) == TRUE

\* Whether h.join() returns Ok for a finished thread: its closure returned.
JoinOk(h) == wpc[h] = "done"

\* for h in handles { matched += h.join().unwrap(); }
\* join blocks until the thread has finished; a panicked thread makes join
\* return Err, and unwrap panics.
JoinLoop(here, next) ==
    /\ pc = here
    /\ IF njoined < Len(handles)
         THEN LET h == handles[njoined + 1]
              IN  /\ wpc[h] \in {"done", "panicked"}
                  /\ njoined' = njoined + 1
                  /\ joinedAt' = [joinedAt EXCEPT ![h] = clock + 1]
                  /\ IF JoinOk(h)
                       THEN /\ matched' = JoinSum(matched, wmatched[h])
                            /\ UNCHANGED <<pc, err>>
                       ELSE /\ Panic("join")
                            /\ UNCHANGED matched
         ELSE /\ pc' = next
              /\ UNCHANGED <<njoined, joinedAt, matched, err>>
    /\ clock' = clock + 1
    /\ UNCHANGED <<envVars, cfgVars, strategy, timeVars, handles, spawnedAt,
                   stdout, workerVars, poolVars, first>>

\* Mutant of AssertCond: assert!(matched >= 0).
AssertCondWeak(m) == m >= 0

\* The condition of assert!(matched > 0).
AssertCond(m) == m > 0

\* assert!(matched > 0);
AssertAt(here, next) ==
    /\ pc = here
    /\ clock' = clock + 1
    /\ IF AssertCond(matched)
         THEN pc' = next /\ UNCHANGED err
         ELSE Panic("assert")
    /\ UNCHANGED <<envVars, cfgVars, strategy, timeVars, joinVars, stdout,
                   workerVars, poolVars, first>>

\* Ok(Instant::now().duration_since(start))
EndAt(here) ==
    /\ pc = here
    /\ clock' = clock + 1
    /\ stop' = clock + 1
    /\ pc' = "print"
    /\ UNCHANGED <<envVars, cfgVars, strategy, start, joinVars, outVars,
                   workerVars, poolVars, first>>

ClonedStart == StartAt("c_start", "cloned", "c_spawn")

\* Mutant of ClonedThreads: `for _ in 1..self.threads`.
ClonedThreadsShort == threads - 1

\* The bound of `for _ in 0..self.threads` in cloned.
ClonedThreads == threads

\* for _ in 0..self.threads { let re = self.re.clone(); handles.push(..) }
\* followed by `let mut matched = 0;`
ClonedSpawn ==
    /\ pc = "c_spawn"
    /\ clock' = clock + 1
    /\ IF Len(handles) < ClonedThreads
         THEN /\ npools' = npools + 1
              /\ SpawnWorker(Len(handles) + 1, ClonedPool(npools))
              /\ UNCHANGED <<pc, matched>>
         ELSE /\ pc' = "c_join"
              /\ matched' = 0
              /\ UNCHANGED <<npools, handles, spawnedAt, wpc, wmatched, poolOf>>
    /\ UNCHANGED <<envVars, cfgVars, strategy, timeVars, njoined, joinedAt,
                   outVars, iter, held, locks, owner, stack, mutex, created,
                   first>>

ClonedJoin == JoinLoop("c_join", "c_assert")

ClonedAssert == AssertAt("c_assert", "c_end")

ClonedEnd == EndAt("c_end")

SharedStart == StartAt("s_start", "shared", "s_clone")

\* Mutant of SharedThreads: `for _ in 1..self.threads`.
SharedThreadsFromOne == threads - 1

\* The bound of `for _ in 0..self.threads` in shared.
SharedThreads == threads

\* Mutant of SharedClone: the regex is built again inside the timed region
\* (`Arc::new(RegexBuilder::new(PATTERN).build()?)`).
SharedCloneRebuild ==
    /\ pc = "s_clone"
    /\ clock' = clock + 1
    /\ compiles' = compiles + 1
    /\ npools' = npools + 1
    /\ pc' = "s_spawn"
    /\ UNCHANGED <<envVars, threads, compiledAt, benchmark, which, strategy,
                   timeVars, joinVars, outVars, workerVars, owner, stack,
                   mutex, created, first>>

\* let re = Arc::new(self.re.clone());
SharedClone ==
    /\ pc = "s_clone"
    /\ clock' = clock + 1
    /\ npools' = npools + 1
    /\ pc' = "s_spawn"
    /\ UNCHANGED <<envVars, cfgVars, strategy, timeVars, joinVars, outVars,
                   workerVars, owner, stack, mutex, created, first>>

\* for _ in 0..self.threads { let re = Arc::clone(&re); handles.push(..) }
\* followed by `let mut matched = 0;`
SharedSpawn ==
    /\ pc = "s_spawn"
    /\ clock' = clock + 1
    /\ IF Len(handles) < SharedThreads
         THEN /\ SpawnWorker(Len(handles) + 1, SharedPool(npools))
              /\ UNCHANGED <<pc, matched>>
         ELSE /\ pc' = "s_join"
              /\ matched' = 0
              /\ UNCHANGED <<handles, spawnedAt, wpc, wmatched, poolOf>>
    /\ UNCHANGED <<envVars, cfgVars, strategy, timeVars, njoined, joinedAt,
                   outVars, iter, held, locks, poolVars, first>>

SharedJoin == JoinLoop("s_join", "s_assert")

SharedAssert == AssertAt("s_assert", "s_end")

SharedEnd == EndAt("s_end")

\* The line `{:?}` prints for `duration` (an anyhow::Result<Duration>).
DebugLine(d) == <<"Ok(", d, ")">>

\* Mutant of PrintDuration: the line is written by println! and by writeln!.
PrintDurationTwice ==
    /\ pc = "print"
    /\ clock' = clock + 1
    /\ stdout' = stdout \o <<DebugLine(stop - start), DebugLine(stop - start)>>
    /\ pc' = "return"
    /\ UNCHANGED <<envVars, cfgVars, strategy, timeVars, joinVars, err,
                   workerVars, poolVars, first>>

\* writeln!(std::io::stdout(), "{:?}", duration)?;
PrintDuration ==
    /\ pc = "print"
    /\ clock' = clock + 1
    /\ stdout' = Append(stdout, DebugLine(stop - start))
    /\ pc' = "return"
    /\ UNCHANGED <<envVars, cfgVars, strategy, timeVars, joinVars, err,
                   workerVars, poolVars, first>>

\* Ok(())
Exit ==
    /\ pc = "return"
    /\ clock' = clock + 1
    /\ pc' = "exit_ok"
    /\ UNCHANGED <<envVars, cfgVars, strategy, timeVars, joinVars, outVars,
                   workerVars, poolVars, first>>

(* ----------------------------- the workers ---------------------------- *)

\* The process is alive: main has neither returned nor panicked.
Alive == pc \notin {"exit_ok", "exit_err", "exit_panic"}

\* The thread id Pool::get compares with the pool's owner.
ThreadId(w) == w

\* Whether Pool::get gives thread t the owner's value of pool p: t owns the
\* pool already, or the pool is unowned and t's compare-exchange claims it.
FastPath(p, t) == owner[p] = t \/ owner[p] = THREAD_ID_UNOWNED

\* The end of one pass through the body of `for _ in 0..ITERS`.
NextIter(w) ==
    /\ iter' = [iter EXCEPT ![w] = iter[w] + 1]
    /\ wpc' = [wpc EXCEPT ![w] = LoopTop(iter[w] + 1)]

\* re.is_match(HAYSTACK), first part: get scratch space from the pool.
\*   is "first" thread optimization active?
\*   NO: mutex lock
WGet(w) ==
    /\ Alive
    /\ wpc[w] = "get"
    /\ LET p == poolOf[w]
       IN  IF FastPath(p, ThreadId(w))
             THEN /\ owner' = [owner EXCEPT ![p] = ThreadId(w)]
                  /\ held' = [held EXCEPT ![w] = OwnerVal]
                  /\ wpc' = [wpc EXCEPT ![w] = "search"]
                  /\ UNCHANGED <<mutex, locks>>
             ELSE /\ mutex[p] = 0
                  /\ mutex' = [mutex EXCEPT ![p] = ThreadId(w)]
                  /\ locks' = [locks EXCEPT ![w] = locks[w] + 1]
                  /\ wpc' = [wpc EXCEPT ![w] = "pop"]
                  /\ UNCHANGED <<owner, held>>
    /\ UNCHANGED <<envVars, pc, clock, cfgVars, strategy, timeVars, joinVars,
                   outVars, iter, wmatched, poolOf, npools, stack, created,
                   first>>

\* Mutant of WPop: the value on top of the stack is handed out but stays in
\* the pool.
WPopPeek(w) ==
    /\ Alive
    /\ wpc[w] = "pop"
    /\ LET p == poolOf[w]
       IN  /\ IF stack[p] = << >>
                THEN /\ created' = [created EXCEPT ![p] = created[p] + 1]
                     /\ held' = [held EXCEPT ![w] = created[p] + 1]
                ELSE /\ held' = [held EXCEPT ![w] = stack[p][Len(stack[p])]]
                     /\ UNCHANGED created
           /\ mutex' = [mutex EXCEPT ![p] = 0]
    /\ wpc' = [wpc EXCEPT ![w] = "search"]
    /\ UNCHANGED <<envVars, pc, clock, cfgVars, strategy, timeVars, joinVars,
                   outVars, iter, wmatched, poolOf, locks, npools, owner,
                   stack, first>>

\* Mutant of WPop: the mutex stays locked after the pop, for the duration of
\* the search.
WPopKeepsLock(w) ==
    /\ Alive
    /\ wpc[w] = "pop"
    /\ LET p == poolOf[w]
       IN  IF stack[p] = << >>
             THEN /\ created' = [created EXCEPT ![p] = created[p] + 1]
                  /\ held' = [held EXCEPT ![w] = created[p] + 1]
                  /\ UNCHANGED stack
             ELSE /\ held' = [held EXCEPT ![w] = stack[p][Len(stack[p])]]
                  /\ stack' = [stack EXCEPT
                                 ![p] = SubSeq(stack[p], 1, Len(stack[p]) - 1)]
                  /\ UNCHANGED created
    /\ wpc' = [wpc EXCEPT ![w] = "search"]
    /\ UNCHANGED <<envVars, pc, clock, cfgVars, strategy, timeVars, joinVars,
                   outVars, iter, wmatched, poolOf, locks, npools, owner,
                   mutex, first>>

\*       pop pointer out of the pool (a new value when the stack is empty)
\*       mutex unlock
WPop(w) ==
    /\ Alive
    /\ wpc[w] = "pop"
    /\ LET p == poolOf[w]
       IN  /\ IF stack[p] = << >>
                THEN /\ created' = [created EXCEPT ![p] = created[p] + 1]
                     /\ held' = [held EXCEPT ![w] = created[p] + 1]
                     /\ UNCHANGED stack
                ELSE /\ held' = [held EXCEPT ![w] = stack[p][Len(stack[p])]]
                     /\ stack' = [stack EXCEPT
                                    ![p] = SubSeq(stack[p], 1, Len(stack[p]) - 1)]
                     /\ UNCHANGED created
           /\ mutex' = [mutex EXCEPT ![p] = 0]
    /\ wpc' = [wpc EXCEPT ![w] = "search"]
    /\ UNCHANGED <<envVars, pc, clock, cfgVars, strategy, timeVars, joinVars,
                   outVars, iter, wmatched, poolOf, locks, npools, owner, first>>

\* `matched += 1` of the worker's loop.
Incr(m) == AddI32(m, 1)

\* The worker's `matched` after one call of is_match.
Counted(m) == IF IsMatch(PATTERN, HAYSTACK) THEN Incr(m) ELSE m

\*   do a search:  if re.is_match(HAYSTACK) { matched += 1; }
\*   is "first" thread optimization active?
\*   YES: do nothing
WSearch(w) ==
    /\ Alive
    /\ wpc[w] = "search"
    /\ wmatched' = [wmatched EXCEPT ![w] = Counted(wmatched[w])]
    /\ IF held[w] = OwnerVal
         THEN /\ held' = [held EXCEPT ![w] = 0]
              /\ NextIter(w)
         ELSE /\ wpc' = [wpc EXCEPT ![w] = "put"]
              /\ UNCHANGED <<held, iter>>
    /\ UNCHANGED <<envVars, pc, clock, cfgVars, strategy, timeVars, joinVars,
                   outVars, poolOf, locks, poolVars, first>>

\*   NO: mutex lock
WPut(w) ==
    /\ Alive
    /\ wpc[w] = "put"
    /\ mutex[poolOf[w]] = 0
    /\ mutex' = [mutex EXCEPT ![poolOf[w]] = ThreadId(w)]
    /\ locks' = [locks EXCEPT ![w] = locks[w] + 1]
    /\ wpc' = [wpc EXCEPT ![w] = "push"]
    /\ UNCHANGED <<envVars, pc, clock, cfgVars, strategy, timeVars, joinVars,
                   outVars, iter, wmatched, poolOf, held, npools, owner,
                   stack, created, first>>

\*       push pointer back into pool
\*       mutex unlock
WPush(w) ==
    /\ Alive
    /\ wpc[w] = "push"
    /\ LET p == poolOf[w]
       IN  /\ stack' = [stack EXCEPT ![p] = Append(stack[p], held[w])]
           /\ mutex' = [mutex EXCEPT ![p] = 0]
    /\ held' = [held EXCEPT ![w] = 0]
    /\ NextIter(w)
    /\ UNCHANGED <<envVars, pc, clock, cfgVars, strategy, timeVars, joinVars,
                   outVars, wmatched, poolOf, locks, npools, owner, created,
                   first>>

\* The worker's closure panics during a search. Unwinding drops its locals
\* and puts the scratch value it holds back into the pool it came from; the
\* thread ends without a result: h.join() will return Err.
WPanic(w) ==
    /\ Alive
    /\ wpc[w] = "search"
    /\ LET p == poolOf[w]
       IN  IF held[w] = OwnerVal
             THEN UNCHANGED <<stack, mutex>>
             ELSE /\ mutex[p] = 0
                  /\ stack' = [stack EXCEPT ![p] = Append(stack[p], held[w])]
                  /\ UNCHANGED mutex
    /\ held' = [held EXCEPT ![w] = 0]
    /\ iter' = [iter EXCEPT ![w] = 0]
    /\ wmatched' = [wmatched EXCEPT ![w] = 0]
    /\ locks' = [locks EXCEPT ![w] = 0]
    /\ wpc' = [wpc EXCEPT ![w] = "panicked"]
    /\ UNCHANGED <<envVars, pc, clock, cfgVars, strategy, timeVars, joinVars,
                   outVars, poolOf, npools, owner, created, first>>

(* -------------------------- specifications ---------------------------- *)

Main ==
    \/ ReadThreads
    \/ Compile
    \/ Construct
    \/ ReadWhich
    \/ Dispatch
    \/ ClonedStart
    \/ ClonedSpawn
    \/ ClonedJoin
    \/ ClonedAssert
    \/ ClonedEnd
    \/ SharedStart
    \/ SharedClone
    \/ SharedSpawn
    \/ SharedJoin
    \/ SharedAssert
    \/ SharedEnd
    \/ PrintDuration
    \/ Exit

Worker(w) ==
    \/ WGet(w)
    \/ WPop(w)
    \/ WSearch(w)
    \/ WPut(w)
    \/ WPush(w)
    \/ WPanic(w)

Next == Main \/ \E w \in Workers : Worker(w)

Spec == Init /\ [][Next]_vars

(* ------------- both strategies on one Benchmark, in turn --------------- *)

\* The entry of the method that was not called first.
OtherStart(name) == IF name = "cloned" THEN "s_start" ELSE "c_start"

\* A caller that holds the Benchmark calls the other method once the first
\* has returned its Ok(duration), keeping the first call's aggregated count.
\* The first call's threads have been joined and its Regex clones dropped.
CallOther ==
    /\ pc = "print"
    /\ first = NoResult
    /\ first' = [strategy |-> strategy, matched |-> matched]
    /\ pc' = OtherStart(strategy)
    /\ clock' = clock + 1
    /\ strategy' = ""
    /\ start' = None
    /\ stop' = None
    /\ handles' = << >>
    /\ njoined' = 0
    /\ matched' = 0
    /\ spawnedAt' = PerWorker(None)
    /\ joinedAt' = PerWorker(None)
    /\ wpc' = PerWorker("idle")
    /\ iter' = PerWorker(0)
    /\ wmatched' = PerWorker(0)
    /\ poolOf' = PerWorker(None)
    /\ held' = PerWorker(0)
    /\ locks' = PerWorker(0)
    /\ npools' = 0
    /\ owner' = PerPool(THREAD_ID_UNOWNED)
    /\ stack' = PerPool(<< >>)
    /\ mutex' = PerPool(0)
    /\ created' = PerPool(0)
    /\ UNCHANGED <<envVars, cfgVars, outVars>>

\* The runs that call both methods: a recognized strategy, a thread count
\* below the largest one.
InitBoth ==
    /\ Init
    /\ envThreads.set
    /\ ParseU32(envThreads.val) \in 0 .. MaxThreads - 1
    /\ envWhich.val \in {"cloned", "shared"}

NextBoth == Next \/ CallOther

SpecBoth == InitBoth /\ [][NextBoth]_vars

(* ------------------- the counters at their full size ------------------ *)

\* Thread counts REGEX_BENCH_THREADS is given for the runs with the real
\* ITERS: one, the two around i32::MAX / ITERS, and twice the latter.
SumInputs ==
    {<<"1">>,
     <<"2", "1", "4", "7", "4">>,
     <<"2", "1", "4", "7", "5">>,
     <<"4", "2", "9", "5", "0">>}

\* Whether `a += b` on an i32 overflows, for b >= 0.
AddOverflows(a, b) == a > I32Max - b

\* The state in which a strategy has spawned its workers. Every worker runs
\* the same closure on the same constants, so the closure is followed once,
\* as worker 1, and its result is what each join returns.
InitSum ==
    /\ envThreads \in {[set |-> TRUE, val |-> v] : v \in SumInputs}
    /\ envWhich \in {[set |-> TRUE, val |-> v] : v \in {"cloned", "shared"}}
    /\ pc = "sum_worker"
    /\ clock = 0
    /\ threads = ParseU32(envThreads.val)
    /\ compiles = 1
    /\ compiledAt = 0
    /\ benchmark = TRUE
    /\ which = envWhich.val
    /\ strategy = envWhich.val
    /\ start = 0
    /\ stop = None
    /\ handles = << >>
    /\ njoined = 0
    /\ matched = 0
    /\ spawnedAt = PerWorker(None)
    /\ joinedAt = PerWorker(None)
    /\ stdout = << >>
    /\ err = NoError
    /\ wpc = PerWorker("idle")
    /\ iter = PerWorker(0)
    /\ wmatched = PerWorker(0)
    /\ poolOf = PerWorker(None)
    /\ held = PerWorker(0)
    /\ locks = PerWorker(0)
    /\ npools = 0
    /\ owner = PerPool(THREAD_ID_UNOWNED)
    /\ stack = PerPool(<< >>)
    /\ mutex = PerPool(0)
    /\ created = PerPool(0)
    /\ first = NoResult

\* for _ in 0..ITERS { if re.is_match(HAYSTACK) { matched += 1; } }
\* with the real ITERS; at the end of the loop the closure returns.
SumWorker ==
    /\ pc = "sum_worker"
    /\ IF iter[1] < ITERS
         THEN /\ iter' = [iter EXCEPT ![1] = iter[1] + 1]
              /\ wmatched' = [wmatched EXCEPT ![1] = Counted(wmatched[1])]
              /\ UNCHANGED pc
         ELSE /\ pc' = "sum_join"
              /\ UNCHANGED <<iter, wmatched>>
    /\ UNCHANGED <<envVars, clock, cfgVars, strategy, timeVars, joinVars,
                   outVars, wpc, poolOf, held, locks, poolVars, first>>

\* for h in handles { matched += h.join().unwrap(); } with the real ITERS.
\* The addition is on i32: when it overflows, a build with overflow checks
\* panics and a build without them wraps around.
SumJoin ==
    /\ pc = "sum_join"
    /\ IF njoined < threads
         THEN /\ njoined' = njoined + 1
              /\ \/ /\ matched' = JoinSum(matched, wmatched[1])
                    /\ UNCHANGED <<pc, err>>
                 \/ /\ AddOverflows(matched, wmatched[1])
                    /\ Panic("overflow")
                    /\ UNCHANGED matched
         ELSE /\ pc' = "sum_assert"
              /\ UNCHANGED <<njoined, matched, err>>
    /\ UNCHANGED <<envVars, clock, cfgVars, strategy, timeVars, handles,
                   spawnedAt, joinedAt, stdout, workerVars, poolVars, first>>

\* assert!(matched > 0); on the sum of the real counts.
SumAssert ==
    /\ pc = "sum_assert"
    /\ IF AssertCond(matched)
         THEN pc' = "sum_ok" /\ UNCHANGED err
         ELSE Panic("assert")
    /\ UNCHANGED <<envVars, clock, cfgVars, strategy, timeVars, joinVars,
                   stdout, workerVars, poolVars, first>>

NextSum == SumWorker \/ SumJoin \/ SumAssert

SpecSum == InitSum /\ [][NextSum]_vars

\* The steps of a worker whose closure runs to its end: every is_match call
\* returns.
WorkerRun(w) ==
    \/ WGet(w)
    \/ WPop(w)
    \/ WSearch(w)
    \/ WPut(w)
    \/ WPush(w)

\* The runs explored under fairness: those whose workers perform at most
\* MaxWork match operations in total.
InitFair ==
    /\ Init
    /\ ParseU32(envThreads.val) # None
            => ParseU32(envThreads.val) * Iters <= MaxWork

NextFair == Main \/ \E w \in Workers : WorkerRun(w)

\* The program under a fair scheduler: the main thread and every worker
\* thread that can take a step eventually takes one. A worker that waits for
\* the pool mutex can take its step only while the mutex is free.
SpecFair ==
    /\ InitFair
    /\ [][NextFair]_vars
    /\ WF_vars(Main)
    /\ \A w \in Workers : WF_vars(WorkerRun(w))

(* ------------------------------ properties ---------------------------- *)

Recognized == {"cloned", "shared"}

\* No thread has been spawned.
NoWorkerSpawned ==
    /\ handles = << >>
    /\ \A w \in Workers : wpc[w] = "idle" /\ spawnedAt[w] = None

\* The join loop of the running strategy has consumed every handle.
JoinsComplete ==
    \/ pc \in {"c_assert", "s_assert", "c_end", "s_end", "print", "return",
               "exit_ok"}
    \/ pc = "exit_panic" /\ err.kind = "assert"

\* The process has ended.
Terminated == pc \in {"exit_ok", "exit_err", "exit_panic"}

\* The run has got as far as printing or returning success.
Succeeding == pc \in {"print", "return", "exit_ok"}

\* REGEX_BENCH_THREADS is missing or is not the text of a u32.
BadThreadsInput == ~envThreads.set \/ envThreads.val \in MalformedCounts

\* REGEX_BENCH_THREADS is "0".
ZeroThreadsInput == envThreads.set /\ envThreads.val = <<"0">>

C2_SameCount ==
    (first # NoResult /\ JoinsComplete)
        => /\ first.strategy # strategy
           /\ matched = first.matched

C2_Witness ==
    /\ pc = "print"
    /\ first.strategy = "cloned"
    /\ strategy = "shared"
    /\ threads >= 2
    /\ matched = first.matched

\* C3 as stated: whenever the selector is set to an unrecognized value, no
\* worker is ever spawned and the run ends in an error naming that value.
C3_Original ==
    (envWhich.set /\ envWhich.val \notin Recognized)
        => /\ NoWorkerSpawned
           /\ ~Succeeding
           /\ Terminated =>
                /\ pc = "exit_err"
                /\ \/ envWhich.val = ""
                   \/ \E i \in DOMAIN err.msg : err.msg[i] = envWhich.val

\* C3 amended: when the thread count parses, a selector set to an
\* unrecognized value spawns no worker and ends the run in the "unrecognized"
\* error, whose message carries that value.
C3_UnrecognizedFails ==
    (/\ envWhich.set
     /\ envWhich.val \notin Recognized
     /\ ~BadThreadsInput)
        => /\ NoWorkerSpawned
           /\ start = None
           /\ ~Succeeding
           /\ Terminated =>
                /\ pc = "exit_err"
                /\ err.kind = "unrecognized"
                /\ err.msg[Len(err.msg)] = envWhich.val

C3_Witness ==
    /\ pc = "exit_err"
    /\ err.kind = "unrecognized"
    /\ envWhich.val = "bogus"
    /\ err.msg = <<"unrecognized REGEX_BENCH_WHICH=", "bogus">>
    /\ NoWorkerSpawned

\* C4: with a thread count of 0 and a recognized strategy the run never
\* succeeds and prints nothing: no worker is spawned, the aggregated count
\* is 0, and a run that gets to the assertion is aborted by it.
C4_ZeroThreads ==
    (ZeroThreadsInput /\ envWhich.set /\ envWhich.val \in Recognized)
        => /\ ~Succeeding
           /\ stdout = << >>
           /\ stop = None
           /\ NoWorkerSpawned
           /\ matched = 0
           /\ pc = "exit_panic" => err.kind = "assert"
           /\ pc = "exit_err" => start = None

C4_Witness ==
    /\ ZeroThreadsInput
    /\ strategy = "shared"
    /\ pc = "exit_panic"
    /\ err.kind = "assert"
    /\ njoined = 0

\* C5 as stated: a thread count that is missing, unparseable or not positive
\* (0 included) ends in a configuration error before the Benchmark and
\* before any worker is constructed.
C5_Original ==
    (BadThreadsInput \/ ZeroThreadsInput)
        => /\ ~benchmark
           /\ NoWorkerSpawned
           /\ Terminated => (pc = "exit_err" /\ err.kind = "config")

\* C5 amended: a thread count that is missing or does not parse as a u32
\* ends in a configuration error before the regex is compiled, the Benchmark
\* constructed or any worker spawned; a thread count of 0 parses and the run
\* goes on to compile the regex.
C5_BadThreadsRejected ==
    /\ BadThreadsInput
         => /\ ~benchmark
            /\ compiles = 0
            /\ NoWorkerSpawned
            /\ pc \in {"read_threads", "exit_err"}
            /\ pc = "exit_err" => err.kind = "config"
    /\ (ZeroThreadsInput /\ pc # "read_threads")
         => /\ threads = 0
            /\ pc = "compile" \/ compiles = 1

C5_Witness ==
    /\ envThreads = [set |-> TRUE, val |-> <<"-", "1">>]
    /\ pc = "exit_err"
    /\ err.kind = "config"
    /\ ~benchmark

\* C6: once a spawned worker has panicked, the run never succeeds, takes no
\* end timestamp and prints no duration; main gets no further than the
\* panic of the join.
C6_WorkerFailureFailsRun ==
    (\E w \in Workers : wpc[w] = "panicked")
        => /\ pc \in {"c_spawn", "c_join", "s_spawn", "s_join", "exit_panic"}
           /\ stop = None
           /\ stdout = << >>
           /\ pc = "exit_panic" => err.kind = "join"

C6_Witness ==
    /\ pc = "exit_panic"
    /\ err.kind = "join"
    /\ \E w \in Workers : wpc[w] = "panicked"
    /\ \E w \in Workers : wpc[w] = "done" /\ wmatched[w] = Iters

\* C7: at most one line is ever written to standard output; it is written
\* only after configuration, compilation and strategy selection succeeded,
\* every worker was joined and the count was positive; a successful exit has
\* written exactly one line, and a run that ended in an error or a panic has
\* written nothing.
C7_DurationOnlyOnSuccess ==
    /\ Len(stdout) <= 1
    /\ stdout # << >>
         => /\ pc \in {"return", "exit_ok"}
            /\ threads # None
            /\ compiledAt # None
            /\ which \in Recognized
            /\ Len(handles) = threads
            /\ njoined = threads
            /\ \A w \in 1 .. threads : wpc[w] = "done"
            /\ matched > 0
            /\ stdout = <<DebugLine(stop - start)>>
    /\ pc = "exit_ok" => Len(stdout) = 1
    /\ pc \in {"exit_err", "exit_panic"}
         => stdout = << >> /\ err.kind # "none"

C7_Witness ==
    /\ pc = "exit_ok"
    /\ Len(stdout) = 1
    /\ threads = MaxThreads
    /\ matched = MaxThreads * Iters

\* C8: the regex is built at most once in a run, exactly once in every run
\* that has a thread count and got past the build, and the build has
\* returned before `start` is taken.
C8_CompiledOnceBeforeStart ==
    /\ compiles <= 1
    /\ (threads # None /\ pc \notin {"compile", "read_threads"})
         => compiles = 1
    /\ start # None
         => /\ compiles = 1
            /\ compiledAt # None
            /\ compiledAt < start

C8_Witness ==
    /\ strategy = "shared"
    /\ stop # None
    /\ compiles = 1
    /\ compiledAt < start
    /\ threads >= 1

\* C9: every spawn and every join happens after `start` is taken and before
\* the end timestamp is taken; the end timestamp is taken only when every
\* one of the `threads` workers has been spawned and joined.
C9_SpawnJoinInsideTimedRegion ==
    /\ \A w \in Workers :
        /\ spawnedAt[w] # None
             => /\ start # None
                /\ start < spawnedAt[w]
                /\ stop # None => spawnedAt[w] < stop
        /\ joinedAt[w] # None
             => /\ start # None
                /\ spawnedAt[w] # None
                /\ spawnedAt[w] < joinedAt[w]
                /\ stop # None => joinedAt[w] < stop
    /\ stop # None
         => /\ start # None
            /\ start < stop
            /\ Len(handles) = threads
            /\ njoined = threads
            /\ \A w \in 1 .. threads : joinedAt[w] # None

C9_Witness ==
    /\ strategy = "shared"
    /\ stop # None
    /\ threads = MaxThreads
    /\ \A w \in Workers : start < spawnedAt[w] /\ joinedAt[w] < stop

\* C10: in cloned, no two workers have the same pool, a pool is owned by
\* nobody or by its one worker, every worker gets the owner's value, and no
\* worker locks or waits for a pool mutex.
C10_ClonedPoolsPrivate ==
    strategy = "cloned"
        => /\ \A v, w \in Workers :
                (v # w /\ poolOf[v] # None /\ poolOf[w] # None)
                    => poolOf[v] # poolOf[w]
           /\ \A w \in Workers :
                wpc[w] \in {"get", "search", "done"}
                    => /\ poolOf[w] \in 1 .. npools
                       /\ owner[poolOf[w]] \in {THREAD_ID_UNOWNED, ThreadId(w)}
                       /\ wpc[w] = "get" => FastPath(poolOf[w], ThreadId(w))
                       /\ wpc[w] = "search" => held[w] = OwnerVal
           /\ \A w \in Workers : wpc[w] \notin {"pop", "put", "push"}
           /\ \A p \in PoolIds : mutex[p] = 0 /\ stack[p] = << >>

C10_Witness ==
    /\ strategy = "cloned"
    /\ threads >= 2
    /\ \A w \in 1 .. 2 :
        /\ wpc[w] = "search"
        /\ held[w] = OwnerVal
        /\ owner[poolOf[w]] = ThreadId(w)
    /\ poolOf[1] # poolOf[2]

\* The number of times a worker that always takes the mutex has locked it
\* when it has finished `done` iterations and stands at `at`.
LocksAt(done, at) ==
    2 * done + (CASE at \in {"pop", "search", "put"} -> 1
                  [] at = "push" -> 2
                  [] OTHER -> 0)

\* C11: in shared there is one matcher and one pool, every worker refers to
\* it, at most one worker holds the owner's value (the pool's recorded
\* owner, which has never locked the mutex), and every other worker has
\* locked the pool mutex once for each value it took and once for each
\* value it gave back.
C11_SharedOnePool ==
    strategy = "shared"
        => /\ npools <= 1
           /\ pc # "s_clone" => npools = 1
           /\ \A w \in Workers : poolOf[w] # None => poolOf[w] = 1
           /\ \A p \in PoolIds : p # 1 => owner[p] = THREAD_ID_UNOWNED
           /\ \A v, w \in Workers :
                (held[v] = OwnerVal /\ held[w] = OwnerVal) => v = w
           /\ \A w \in Workers :
                wpc[w] \notin {"idle", "panicked"}
                    => IF owner[1] = ThreadId(w)
                       THEN /\ locks[w] = 0
                            /\ held[w] \in {0, OwnerVal}
                       ELSE /\ locks[w] = LocksAt(iter[w], wpc[w])
                            /\ held[w] # OwnerVal

C11_Witness ==
    /\ strategy = "shared"
    /\ threads = 3
    /\ \A w \in 1 .. 3 : wpc[w] = "done" /\ poolOf[w] = 1
    /\ \E o \in 1 .. 3 :
        /\ owner[1] = ThreadId(o)
        /\ locks[o] = 0
        /\ \A w \in (1 .. 3) \ {o} : locks[w] = 2 * Iters

\* C12: a pool's mutex is locked only by a worker that is popping a value
\* out of that pool or pushing one back, and no worker that is searching
\* holds the mutex of its pool.
C12_LockOnlyAroundPool ==
    /\ \A p \in PoolIds :
        mutex[p] # 0
            => \E w \in Workers :
                /\ mutex[p] = ThreadId(w)
                /\ poolOf[w] = p
                /\ wpc[w] \in {"pop", "push"}
    /\ \A w \in Workers :
        wpc[w] \in {"get", "search", "put", "done"}
            => mutex[poolOf[w]] # ThreadId(w)

\* Two workers that went through the mutex search at the same time on the
\* shared matcher, with the mutex free.
C12_Witness ==
    /\ strategy = "shared"
    /\ \E v, w \in Workers :
        /\ v # w
        /\ wpc[v] = "search" /\ held[v] > 0
        /\ wpc[w] = "search" /\ held[w] > 0
        /\ poolOf[v] = poolOf[w]
        /\ mutex[poolOf[v]] = 0

\* A worker's closure has returned after ITERS calls of is_match.
Completed(w) == wpc[w] = "done" /\ iter[w] = Iters /\ wmatched[w] = Iters

\* C13: under fair scheduling every spawned worker goes on to complete
\* exactly ITERS match operations and end, a worker that has ended did all
\* of them, and a join loop that has been entered consumes every handle.
C13_WorkersCompleteAndJoin ==
    /\ \A w \in Workers : (wpc[w] # "idle") ~> Completed(w)
    /\ [](\A w \in Workers :
            /\ wpc[w] # "panicked"
            /\ iter[w] <= Iters
            /\ wpc[w] = "done" => Completed(w))
    /\ (pc \in {"c_join", "s_join"})
            ~> (JoinsComplete /\ njoined = threads
                    /\ \A w \in 1 .. threads : Completed(w))

\* Three workers of shared, two of which went through the pool mutex for
\* every search, have all completed and been joined.
C13_Witness ==
    /\ strategy = "shared"
    /\ threads = 3
    /\ JoinsComplete
    /\ njoined = 3
    /\ \A w \in 1 .. 3 : Completed(w)
    /\ \E v, w \in 1 .. 3 :
        v # w /\ locks[v] = 2 * Iters /\ locks[w] = 2 * Iters

\* The main thread is in, or past, the join loop of the running strategy.
Joining == pc \in {"c_join", "s_join"} \/ njoined > 0 \/ JoinsComplete

\* C14: in both strategies the handles are those of distinct workers, never
\* more than the thread count; once a join is attempted their number is the
\* thread count and every worker was spawned before the first join; the
\* handles are joined one by one in order, each once; and the counter is
\* checked and the end time taken only when every handle has been joined.
C14_SpawnAllThenJoinEach ==
    strategy \in Recognized
        => /\ Len(handles) <= threads
           /\ \A i \in 1 .. Len(handles) : handles[i] = i
           /\ \A w \in Workers :
                /\ spawnedAt[w] # None <=> w \in 1 .. Len(handles)
                /\ wpc[w] # "idle" <=> w \in 1 .. Len(handles)
                /\ joinedAt[w] # None <=> w \in 1 .. njoined
           /\ njoined <= Len(handles)
           /\ Joining => Len(handles) = threads
           /\ \A v, w \in Workers :
                joinedAt[w] # None
                    => /\ v \in 1 .. threads => /\ spawnedAt[v] # None
                                                /\ spawnedAt[v] < joinedAt[w]
                       /\ v < w => joinedAt[v] < joinedAt[w]
           /\ (JoinsComplete \/ stop # None)
                => /\ njoined = threads
                   /\ \A w \in 1 .. threads : joinedAt[w] # None

C14_Witness ==
    /\ strategy = "cloned"
    /\ threads = MaxThreads
    /\ stop # None
    /\ njoined = MaxThreads
    /\ \A v, w \in Workers : spawnedAt[v] < joinedAt[w]

\* The workers that hold a scratch value popped (or created) from pool p.
Holders(p) == {w \in Workers : poolOf[w] = p /\ held[w] > 0}

\* C15: in shared a scratch value of the pool is held by at most one worker
\* and is not in the pool while it is held; every value ever created is
\* either held or in the pool; a worker holds a value only from its get to
\* its put; and once every handle is joined no worker holds a value, all of
\* them are back in the pool and its mutex is free.
C15_BuffersExclusive ==
    strategy = "shared"
        => /\ \A v, w \in Holders(1) : v # w => held[v] # held[w]
           /\ \A w \in Holders(1), i \in 1 .. Len(stack[1]) :
                stack[1][i] # held[w]
           /\ \A i, j \in 1 .. Len(stack[1]) :
                /\ stack[1][i] \in 1 .. created[1]
                /\ i # j => stack[1][i] # stack[1][j]
           /\ Len(stack[1]) + Cardinality(Holders(1)) = created[1]
           /\ \A w \in Workers :
                /\ wpc[w] \in {"idle", "get", "pop", "done", "panicked"}
                        => held[w] = 0
                /\ wpc[w] = "search" => held[w] > 0 \/ held[w] = OwnerVal
                /\ wpc[w] \in {"put", "push"} => held[w] > 0
           /\ JoinsComplete
                => /\ \A w \in Workers : held[w] = 0
                   /\ Len(stack[1]) = created[1]
                   /\ mutex[1] = 0

\* All three workers of shared are joined; the two values the pool created
\* for the workers that are not its owner are back on its stack.
C15_Witness ==
    /\ strategy = "shared"
    /\ threads = 3
    /\ JoinsComplete
    /\ created[1] = 2
    /\ Len(stack[1]) = 2
    /\ \A w \in Workers : held[w] = 0 /\ iter[w] = Iters

\* C16: for every accepted thread count no addition to a counter overflows,
\* the worker's counter is the number of its iterations, and the sum is the
\* real ITERS times the number of joined workers (never wrapped to a wrong,
\* zero or negative value), so that the assert passes.
C16_NoOverflow ==
    /\ err.kind \notin {"overflow", "assert"}
    /\ wmatched[1] = iter[1]
    /\ pc \in {"sum_join", "sum_assert", "sum_ok"}
        => /\ matched >= 0
           /\ matched % ITERS = 0
           /\ matched \div ITERS = njoined

\* REGEX_BENCH_WHICH is missing or names no strategy.
BadWhichInput == ~envWhich.set \/ envWhich.val \notin Recognized

\* The error main returns for the REGEX_BENCH_THREADS it is given.
ThreadsError ==
    [kind |-> "config",
     msg  |-> IF envThreads.set THEN <<"invalid digit found in string">>
              ELSE <<"environment variable not found">>]

\* The error main returns for the REGEX_BENCH_WHICH it is given.
WhichError ==
    IF envWhich.set
      THEN [kind |-> "unrecognized", msg |-> UnrecognizedMsg(envWhich.val)]
      ELSE [kind |-> "config", msg |-> <<"environment variable not found">>]

\* C17: main parses the thread count first, builds the matcher second and
\* reads and matches the selector third: nothing is built before the count
\* is parsed and the selector is not looked at before the matcher is built;
\* a bad thread count is the error reported whatever the selector is, and a
\* missing or unrecognized selector is reported only with the count parsed
\* and the matcher built.
C17_ValidationOrder ==
    /\ threads = None => compiles = 0 /\ compiledAt = None
    /\ compiledAt = None
        => /\ ~benchmark
           /\ which = ""
           /\ strategy = ""
           /\ pc \notin {"read_which", "dispatch"}
           /\ err.kind # "unrecognized"
    /\ (Terminated /\ BadThreadsInput)
        => /\ pc = "exit_err"
           /\ err = ThreadsError
           /\ compiles = 0
           /\ which = ""
    /\ (Terminated /\ ~BadThreadsInput /\ BadWhichInput)
        => /\ pc = "exit_err"
           /\ err = WhichError
           /\ threads # None
           /\ compiles = 1
           /\ compiledAt # None
           /\ benchmark

\* Both variables are bad and the thread count's error is the one reported.
C17_Witness ==
    /\ envThreads.set /\ envThreads.val \in MalformedCounts
    /\ envWhich.set /\ envWhich.val = "bogus"
    /\ pc = "exit_err"
    /\ err = ThreadsError
    /\ compiles = 0

====
